---- MODULE Spec2Model ----
(***************************************************************************)
(* Black-hole ray marcher (three fragment-shader revisions) and its frame  *)
(* driver.                                                                 *)
(*                                                                         *)
(* GLSL floats are held in fixed point: a real x is the integer x*S.       *)
(* Every product of two fixed-point values is divided by S again; the     *)
(* divisions truncate toward zero.  The hash/noise/fbm functions and the   *)
(* disk texture are pseudo-random or external data: their value at the     *)
(* sample points of one ray is an input of that ray, drawn from the range  *)
(* the function has in the source.                                         *)
(***************************************************************************)
EXTENDS Integers, Sequences, FiniteSets, TLC

VARIABLES
    \* ---- frame driver (BlackholeScene.svelte) ----
    time,           \* let time
    uTime,          \* uniforms.uTime.value
    texture,        \* $texture: what the loader has produced so far
    uDiskTexture,   \* uniforms.uDiskTexture.value
    uCameraPos,     \* uniforms.uCameraPos.value
    uCameraDir,     \* uniforms.uCameraDir.value
    uCameraUp,      \* uniforms.uCameraUp.value
    uResolution,    \* uniforms.uResolution.value
    frames,         \* number of frame callbacks run (history)
    deltaSum,       \* sum of the per-frame deltas received so far (history)
    \* ---- one fragment-shader invocation ----
    variant,        \* which fragmentShader revision runs
    vUv,            \* varying vUv of the pixel
    nz,             \* value of noise()/fbm()/texture brightness along this ray
    hs,             \* value of hash() for this ray's final direction (1e-4 units)
    pc,             \* "idle" | "loop" | "post" | "done"
    exit,           \* how the loop ended
    i,              \* loop counter
    p,              \* ray position
    v,              \* ray direction (v in Euler/RK4, rd in uMass)
    d,              \* uMass: distance travelled
    col,            \* col / accumCol
    trans,          \* transmittance (all three channels are equal)
    accumDens,      \* uMass: accumulated opacity
    bloom,          \* RK4: bloom accumulator
    dt,             \* RK4: dt (declared outside the loop); last step size otherwise
    h2,             \* RK4: angular-momentum invariant
    stepDens,       \* blend weight used by the last composite (history)
    sampled,        \* whether the last iteration called the disk sampler (history)
    sampAlpha,      \* alpha the sampler returned in the last iteration (history)
    divR,           \* smallest radius the last iteration divided by; -1 if none (history)
    haltCol,        \* col at the break / loop end, before any escape sample (history)
    preTone,        \* colour handed to tone mapping / output
    fragColor       \* gl_FragColor.rgb

driverVars == <<time, uTime, texture, uDiskTexture, uCameraPos, uCameraDir,
                uCameraUp, uResolution, frames, deltaSum>>
pixelVars == <<variant, vUv, nz, hs>>
rayVars == <<pc, exit, i, p, v, d, col, trans, accumDens, bloom, dt, h2,
             stepDens, sampled, sampAlpha, divR, haltCol, preTone, fragColor>>
vars == <<driverVars, pixelVars, rayVars>>

----------------------------------------------------------------------------
\* Fixed-point arithmetic

\* One unit of the reals; 0.001 is the resolution.
S == 10 * 100

Abs(x) == IF x < 0 THEN -x ELSE x
Max(a, b) == IF a >= b THEN a ELSE b
Min(a, b) == IF a <= b THEN a ELSE b
Clamp(x, lo, hi) == Min(Max(x, lo), hi)

\* Division truncating toward zero (b > 0).
Div(a, b) == IF a >= 0 THEN a \div b ELSE -((-a) \div b)

\* Product of two fixed-point values.
Mul(a, b) == Div(a * b, S)

RECURSIVE SqrtIter(_, _, _)
SqrtIter(n, lo, hi) ==
    IF lo >= hi THEN lo
    ELSE LET mid == (lo + hi + 1) \div 2
         IN IF mid * mid <= n THEN SqrtIter(n, mid, hi)
                               ELSE SqrtIter(n, lo, mid - 1)

\* Largest k with k*k <= n.
ISqrt(n) == SqrtIter(n, 0, 46340)

Zero3 == <<0, 0, 0>>
VAdd(a, b) == <<a[1] + b[1], a[2] + b[2], a[3] + b[3]>>
VSub(a, b) == <<a[1] - b[1], a[2] - b[2], a[3] - b[3]>>
VScale(a, k) == <<Mul(a[1], k), Mul(a[2], k), Mul(a[3], k)>>
VMul(a, b) == <<Mul(a[1], b[1]), Mul(a[2], b[2]), Mul(a[3], b[3])>>
VNeg(a) == <<-a[1], -a[2], -a[3]>>
VDiv(a, k) == <<Div(a[1], k), Div(a[2], k), Div(a[3], k)>>
SumSq(a) == a[1] * a[1] + a[2] * a[2] + a[3] * a[3]
Cross(a, b) == <<Mul(a[2], b[3]) - Mul(a[3], b[2]),
                 Mul(a[3], b[1]) - Mul(a[1], b[3]),
                 Mul(a[1], b[2]) - Mul(a[2], b[1])>>
Dot(a, b) == Mul(a[1], b[1]) + Mul(a[2], b[2]) + Mul(a[3], b[3])

\* length(): the squares of far points are taken at a quarter of the resolution
\* to stay inside the machine integers.
Length(a) ==
    IF Max(Abs(a[1]), Max(Abs(a[2]), Abs(a[3]))) <= 26000
    THEN ISqrt(SumSq(a))
    ELSE 4 * ISqrt(SumSq(VDiv(a, 4)))

\* normalize(); of the zero vector it is undefined in GLSL and no ray of the
\* model starts from one (see WellFormed).
Normalize(a) ==
    LET l == Length(a)
    IN IF l = 0 THEN Zero3
       ELSE <<Div(a[1] * S, l), Div(a[2] * S, l), Div(a[3] * S, l)>>

\* smoothstep(e0, e1, x)
Smoothstep(e0, e1, x) ==
    LET t == Clamp(Div((x - e0) * S, e1 - e0), 0, S)
    IN Mul(Mul(t, t), 3 * S - 2 * t)

\* mix(a, b, t) on scalars and on vectors
Mix(a, b, t) == a + Mul(b - a, t)
VMix(a, b, t) == <<Mix(a[1], b[1], t), Mix(a[2], b[2], t), Mix(a[3], b[3], t)>>

----------------------------------------------------------------------------
\* GLSL pow() with the two non-integer exponents the shaders use

\* pow(x, 1.0/2.2) for x = 0, 0.001, ..., 1 (entry k+1 is floor(S * (k/S)^(1/2.2)))
PowGammaTable ==
    <<
      0, 43, 59, 71, 81, 89, 97, 104, 111, 117, 123, 128, 133, 138, 143, 148, 152, 156, 161, 165,
      168, 172, 176, 180, 183, 186, 190, 193, 196, 200, 203, 206, 209, 212, 215, 217, 220, 223, 226, 228,
      231, 234, 236, 239, 241, 244, 246, 249, 251, 253, 256, 258, 260, 263, 265, 267, 269, 271, 274, 276,
      278, 280, 282, 284, 286, 288, 290, 292, 294, 296, 298, 300, 302, 304, 306, 308, 309, 311, 313, 315,
      317, 319, 320, 322, 324, 326, 327, 329, 331, 333, 334, 336, 338, 339, 341, 343, 344, 346, 347, 349,
      351, 352, 354, 355, 357, 358, 360, 362, 363, 365, 366, 368, 369, 371, 372, 374, 375, 377, 378, 380,
      381, 382, 384, 385, 387, 388, 390, 391, 392, 394, 395, 396, 398, 399, 401, 402, 403, 405, 406, 407,
      409, 410, 411, 413, 414, 415, 417, 418, 419, 420, 422, 423, 424, 425, 427, 428, 429, 431, 432, 433,
      434, 435, 437, 438, 439, 440, 442, 443, 444, 445, 446, 448, 449, 450, 451, 452, 453, 455, 456, 457,
      458, 459, 460, 462, 463, 464, 465, 466, 467, 468, 470, 471, 472, 473, 474, 475, 476, 477, 478, 480,
      481, 482, 483, 484, 485, 486, 487, 488, 489, 490, 491, 493, 494, 495, 496, 497, 498, 499, 500, 501,
      502, 503, 504, 505, 506, 507, 508, 509, 510, 511, 512, 513, 514, 515, 516, 517, 518, 519, 520, 521,
      522, 523, 524, 525, 526, 527, 528, 529, 530, 531, 532, 533, 534, 535, 536, 537, 538, 539, 540, 541,
      542, 543, 543, 544, 545, 546, 547, 548, 549, 550, 551, 552, 553, 554, 555, 556, 557, 557, 558, 559,
      560, 561, 562, 563, 564, 565, 566, 566, 567, 568, 569, 570, 571, 572, 573, 574, 575, 575, 576, 577,
      578, 579, 580, 581, 582, 582, 583, 584, 585, 586, 587, 588, 588, 589, 590, 591, 592, 593, 594, 594,
      595, 596, 597, 598, 599, 599, 600, 601, 602, 603, 604, 604, 605, 606, 607, 608, 609, 609, 610, 611,
      612, 613, 614, 614, 615, 616, 617, 618, 618, 619, 620, 621, 622, 622, 623, 624, 625, 626, 626, 627,
      628, 629, 630, 630, 631, 632, 633, 634, 634, 635, 636, 637, 637, 638, 639, 640, 641, 641, 642, 643,
      644, 644, 645, 646, 647, 647, 648, 649, 650, 651, 651, 652, 653, 654, 654, 655, 656, 657, 657, 658,
      659, 660, 660, 661, 662, 663, 663, 664, 665, 666, 666, 667, 668, 669, 669, 670, 671, 671, 672, 673,
      674, 674, 675, 676, 677, 677, 678, 679, 679, 680, 681, 682, 682, 683, 684, 684, 685, 686, 687, 687,
      688, 689, 689, 690, 691, 692, 692, 693, 694, 694, 695, 696, 697, 697, 698, 699, 699, 700, 701, 701,
      702, 703, 703, 704, 705, 706, 706, 707, 708, 708, 709, 710, 710, 711, 712, 712, 713, 714, 714, 715,
      716, 717, 717, 718, 719, 719, 720, 721, 721, 722, 723, 723, 724, 725, 725, 726, 727, 727, 728, 729,
      729, 730, 731, 731, 732, 733, 733, 734, 735, 735, 736, 736, 737, 738, 738, 739, 740, 740, 741, 742,
      742, 743, 744, 744, 745, 746, 746, 747, 748, 748, 749, 749, 750, 751, 751, 752, 753, 753, 754, 755,
      755, 756, 756, 757, 758, 758, 759, 760, 760, 761, 762, 762, 763, 763, 764, 765, 765, 766, 767, 767,
      768, 768, 769, 770, 770, 771, 772, 772, 773, 773, 774, 775, 775, 776, 776, 777, 778, 778, 779, 780,
      780, 781, 781, 782, 783, 783, 784, 784, 785, 786, 786, 787, 787, 788, 789, 789, 790, 790, 791, 792,
      792, 793, 793, 794, 795, 795, 796, 796, 797, 798, 798, 799, 799, 800, 801, 801, 802, 802, 803, 804,
      804, 805, 805, 806, 807, 807, 808, 808, 809, 809, 810, 811, 811, 812, 812, 813, 814, 814, 815, 815,
      816, 816, 817, 818, 818, 819, 819, 820, 821, 821, 822, 822, 823, 823, 824, 825, 825, 826, 826, 827,
      827, 828, 829, 829, 830, 830, 831, 831, 832, 833, 833, 834, 834, 835, 835, 836, 836, 837, 838, 838,
      839, 839, 840, 840, 841, 842, 842, 843, 843, 844, 844, 845, 845, 846, 847, 847, 848, 848, 849, 849,
      850, 850, 851, 851, 852, 853, 853, 854, 854, 855, 855, 856, 856, 857, 858, 858, 859, 859, 860, 860,
      861, 861, 862, 862, 863, 864, 864, 865, 865, 866, 866, 867, 867, 868, 868, 869, 869, 870, 871, 871,
      872, 872, 873, 873, 874, 874, 875, 875, 876, 876, 877, 877, 878, 879, 879, 880, 880, 881, 881, 882,
      882, 883, 883, 884, 884, 885, 885, 886, 886, 887, 887, 888, 889, 889, 890, 890, 891, 891, 892, 892,
      893, 893, 894, 894, 895, 895, 896, 896, 897, 897, 898, 898, 899, 899, 900, 900, 901, 902, 902, 903,
      903, 904, 904, 905, 905, 906, 906, 907, 907, 908, 908, 909, 909, 910, 910, 911, 911, 912, 912, 913,
      913, 914, 914, 915, 915, 916, 916, 917, 917, 918, 918, 919, 919, 920, 920, 921, 921, 922, 922, 923,
      923, 924, 924, 925, 925, 926, 926, 927, 927, 928, 928, 929, 929, 930, 930, 931, 931, 932, 932, 933,
      933, 934, 934, 935, 935, 936, 936, 937, 937, 938, 938, 939, 939, 940, 940, 941, 941, 942, 942, 943,
      943, 944, 944, 945, 945, 945, 946, 946, 947, 947, 948, 948, 949, 949, 950, 950, 951, 951, 952, 952,
      953, 953, 954, 954, 955, 955, 956, 956, 957, 957, 958, 958, 958, 959, 959, 960, 960, 961, 961, 962,
      962, 963, 963, 964, 964, 965, 965, 966, 966, 967, 967, 968, 968, 968, 969, 969, 970, 970, 971, 971,
      972, 972, 973, 973, 974, 974, 975, 975, 976, 976, 976, 977, 977, 978, 978, 979, 979, 980, 980, 981,
      981, 982, 982, 983, 983, 983, 984, 984, 985, 985, 986, 986, 987, 987, 988, 988, 989, 989, 989, 990,
      990, 991, 991, 992, 992, 993, 993, 994, 994, 994, 995, 995, 996, 996, 997, 997, 998, 998, 999, 999,
      1000
    >>

\* pow(x, 2.2) for x = 0, 0.001, ..., 1 (entry k+1 is floor(S * (k/S)^2.2))
Pow22Table ==
    <<
      0, 0, 0, 0, 0, 0, 0, 0, 0, 0, 0, 0, 0, 0, 0, 0, 0, 0, 0, 0,
      0, 0, 0, 0, 0, 0, 0, 0, 0, 0, 0, 0, 0, 0, 0, 0, 0, 0, 0, 0,
      0, 0, 0, 0, 1, 1, 1, 1, 1, 1, 1, 1, 1, 1, 1, 1, 1, 1, 1, 1,
      2, 2, 2, 2, 2, 2, 2, 2, 2, 2, 2, 2, 3, 3, 3, 3, 3, 3, 3, 3,
      3, 3, 4, 4, 4, 4, 4, 4, 4, 4, 5, 5, 5, 5, 5, 5, 5, 5, 6, 6,
      6, 6, 6, 6, 6, 7, 7, 7, 7, 7, 7, 7, 8, 8, 8, 8, 8, 8, 9, 9,
      9, 9, 9, 9, 10, 10, 10, 10, 10, 11, 11, 11, 11, 11, 12, 12, 12, 12, 12, 13,
      13, 13, 13, 13, 14, 14, 14, 14, 14, 15, 15, 15, 15, 16, 16, 16, 16, 17, 17, 17,
      17, 17, 18, 18, 18, 18, 19, 19, 19, 20, 20, 20, 20, 21, 21, 21, 21, 22, 22, 22,
      22, 23, 23, 23, 24, 24, 24, 25, 25, 25, 25, 26, 26, 26, 27, 27, 27, 28, 28, 28,
      28, 29, 29, 29, 30, 30, 30, 31, 31, 31, 32, 32, 32, 33, 33, 33, 34, 34, 35, 35,
      35, 36, 36, 36, 37, 37, 37, 38, 38, 39, 39, 39, 40, 40, 40, 41, 41, 42, 42, 42,
      43, 43, 44, 44, 44, 45, 45, 46, 46, 46, 47, 47, 48, 48, 49, 49, 49, 50, 50, 51,
      51, 52, 52, 52, 53, 53, 54, 54, 55, 55, 56, 56, 57, 57, 57, 58, 58, 59, 59, 60,
      60, 61, 61, 62, 62, 63, 63, 64, 64, 65, 65, 66, 66, 67, 67, 68, 68, 69, 69, 70,
      70, 71, 71, 72, 72, 73, 73, 74, 74, 75, 76, 76, 77, 77, 78, 78, 79, 79, 80, 80,
      81, 82, 82, 83, 83, 84, 84, 85, 86, 86, 87, 87, 88, 88, 89, 90, 90, 91, 91, 92,
      93, 93, 94, 94, 95, 96, 96, 97, 98, 98, 99, 99, 100, 101, 101, 102, 103, 103, 104, 105,
      105, 106, 106, 107, 108, 108, 109, 110, 110, 111, 112, 112, 113, 114, 114, 115, 116, 116, 117, 118,
      118, 119, 120, 121, 121, 122, 123, 123, 124, 125, 125, 126, 127, 128, 128, 129, 130, 131, 131, 132,
      133, 133, 134, 135, 136, 136, 137, 138, 139, 139, 140, 141, 142, 142, 143, 144, 145, 145, 146, 147,
      148, 149, 149, 150, 151, 152, 153, 153, 154, 155, 156, 156, 157, 158, 159, 160, 161, 161, 162, 163,
      164, 165, 165, 166, 167, 168, 169, 170, 170, 171, 172, 173, 174, 175, 176, 176, 177, 178, 179, 180,
      181, 182, 182, 183, 184, 185, 186, 187, 188, 189, 189, 190, 191, 192, 193, 194, 195, 196, 197, 198,
      198, 199, 200, 201, 202, 203, 204, 205, 206, 207, 208, 209, 210, 210, 211, 212, 213, 214, 215, 216,
      217, 218, 219, 220, 221, 222, 223, 224, 225, 226, 227, 228, 229, 230, 231, 232, 233, 234, 235, 236,
      237, 238, 239, 240, 241, 242, 243, 244, 245, 246, 247, 248, 249, 250, 251, 252, 253, 254, 255, 256,
      257, 258, 259, 260, 262, 263, 264, 265, 266, 267, 268, 269, 270, 271, 272, 273, 274, 275, 277, 278,
      279, 280, 281, 282, 283, 284, 285, 287, 288, 289, 290, 291, 292, 293, 294, 295, 297, 298, 299, 300,
      301, 302, 303, 305, 306, 307, 308, 309, 310, 312, 313, 314, 315, 316, 317, 319, 320, 321, 322, 323,
      325, 326, 327, 328, 329, 331, 332, 333, 334, 335, 337, 338, 339, 340, 341, 343, 344, 345, 346, 348,
      349, 350, 351, 353, 354, 355, 356, 358, 359, 360, 361, 363, 364, 365, 366, 368, 369, 370, 372, 373,
      374, 375, 377, 378, 379, 381, 382, 383, 385, 386, 387, 388, 390, 391, 392, 394, 395, 396, 398, 399,
      400, 402, 403, 404, 406, 407, 408, 410, 411, 412, 414, 415, 417, 418, 419, 421, 422, 423, 425, 426,
      428, 429, 430, 432, 433, 435, 436, 437, 439, 440, 442, 443, 444, 446, 447, 449, 450, 451, 453, 454,
      456, 457, 459, 460, 462, 463, 464, 466, 467, 469, 470, 472, 473, 475, 476, 478, 479, 480, 482, 483,
      485, 486, 488, 489, 491, 492, 494, 495, 497, 498, 500, 501, 503, 504, 506, 507, 509, 511, 512, 514,
      515, 517, 518, 520, 521, 523, 524, 526, 527, 529, 531, 532, 534, 535, 537, 538, 540, 542, 543, 545,
      546, 548, 549, 551, 553, 554, 556, 557, 559, 561, 562, 564, 565, 567, 569, 570, 572, 574, 575, 577,
      578, 580, 582, 583, 585, 587, 588, 590, 592, 593, 595, 597, 598, 600, 602, 603, 605, 607, 608, 610,
      612, 613, 615, 617, 618, 620, 622, 623, 625, 627, 629, 630, 632, 634, 635, 637, 639, 641, 642, 644,
      646, 647, 649, 651, 653, 654, 656, 658, 660, 661, 663, 665, 667, 668, 670, 672, 674, 676, 677, 679,
      681, 683, 684, 686, 688, 690, 692, 693, 695, 697, 699, 701, 703, 704, 706, 708, 710, 712, 713, 715,
      717, 719, 721, 723, 724, 726, 728, 730, 732, 734, 736, 737, 739, 741, 743, 745, 747, 749, 751, 752,
      754, 756, 758, 760, 762, 764, 766, 768, 770, 771, 773, 775, 777, 779, 781, 783, 785, 787, 789, 791,
      793, 795, 796, 798, 800, 802, 804, 806, 808, 810, 812, 814, 816, 818, 820, 822, 824, 826, 828, 830,
      832, 834, 836, 838, 840, 842, 844, 846, 848, 850, 852, 854, 856, 858, 860, 862, 864, 866, 868, 870,
      872, 874, 876, 878, 880, 882, 885, 887, 889, 891, 893, 895, 897, 899, 901, 903, 905, 907, 909, 912,
      914, 916, 918, 920, 922, 924, 926, 928, 930, 933, 935, 937, 939, 941, 943, 945, 947, 950, 952, 954,
      956, 958, 960, 962, 965, 967, 969, 971, 973, 975, 978, 980, 982, 984, 986, 989, 991, 993, 995, 997,
      1000
    >>

\* pow(x, 1.0/2.2) and pow(x, 2.2) for 0 <= x <= 1
PowGamma(x) == PowGammaTable[x + 1]
Pow22(x) == Pow22Table[x + 1]

----------------------------------------------------------------------------
\* The ray of one fragment-shader invocation

Cur ==
    [pc |-> pc, exit |-> exit, i |-> i, p |-> p, v |-> v, d |-> d, col |-> col,
     trans |-> trans, accumDens |-> accumDens, bloom |-> bloom, dt |-> dt,
     h2 |-> h2, stepDens |-> stepDens, sampled |-> sampled,
     sampAlpha |-> sampAlpha, divR |-> divR, haltCol |-> haltCol, preTone |-> preTone,
     fragColor |-> fragColor]

BlankRay ==
    [pc |-> "off", exit |-> "none", i |-> 0, p |-> Zero3, v |-> Zero3, d |-> 0,
     col |-> Zero3, trans |-> S, accumDens |-> 0, bloom |-> 0, dt |-> 0,
     h2 |-> 0, stepDens |-> 0, sampled |-> FALSE, sampAlpha |-> 0,
     divR |-> -1,
     haltCol |-> Zero3, preTone |-> Zero3, fragColor |-> Zero3]

SetRay(r) ==
    /\ pc' = r.pc /\ exit' = r.exit /\ i' = r.i /\ p' = r.p /\ v' = r.v
    /\ d' = r.d /\ col' = r.col /\ trans' = r.trans
    /\ accumDens' = r.accumDens /\ bloom' = r.bloom /\ dt' = r.dt
    /\ h2' = r.h2 /\ stepDens' = r.stepDens /\ sampled' = r.sampled
    /\ sampAlpha' = r.sampAlpha /\ divR' = r.divR /\ haltCol' = r.haltCol
    /\ preTone' = r.preTone /\ fragColor' = r.fragColor

RayIs(r) ==
    /\ pc = r.pc /\ exit = r.exit /\ i = r.i /\ p = r.p /\ v = r.v
    /\ d = r.d /\ col = r.col /\ trans = r.trans
    /\ accumDens = r.accumDens /\ bloom = r.bloom /\ dt = r.dt
    /\ h2 = r.h2 /\ stepDens = r.stepDens /\ sampled = r.sampled
    /\ sampAlpha = r.sampAlpha /\ divR = r.divR /\ haltCol = r.haltCol
    /\ preTone = r.preTone /\ fragColor = r.fragColor

ZeroSample == [rgb |-> Zero3, a |-> 0]

\* Front-to-back compositing of one disk sample:
\*   col += transmittance * rgb * stepDens;  transmittance *= (1.0 - stepDens);
ColAfter(c, tr, rgb, sd) == VAdd(c, VScale(VScale(rgb, tr), sd))
\* C3, fault: the composite amplifies the remaining light instead of
\* attenuating it
TransAfterAmplify(tr, sd) == Mul(tr, S + sd)

TransAfter(tr, sd) == Mul(tr, S - sd)

\* col = col / (col + vec3(1.0)); col = pow(col, vec3(1.0/2.2));
Reinhard(x) == Div(x * S, x + S)
ToneMap(c) == <<PowGamma(Reinhard(c[1])), PowGamma(Reinhard(c[2])),
                PowGamma(Reinhard(c[3]))>>

\* vec2 uv = vUv * 2.0 - 1.0;
ScreenUv == <<2 * vUv[1] - S, 2 * vUv[2] - S>>

----------------------------------------------------------------------------
\* Revision 1: Euler integration, procedural disk (blackhole.ts, first shader)

MAX_STEPS_E == 65
MAX_DIST_E == 40000
STEP_SIZE_E == 80
HORIZON_E == 2000
INNER_E == 2600
OUTER_E == 14000
HEIGHT_E == 800

\* getBackground(dir): hash() is hs, noise() is nz
BackgroundE ==
    LET stars == IF hs >= 9980 THEN (hs - 9980) * 50 ELSE 0
        neb == Mul(nz, 500)
    IN <<stars + Mul(20, neb), stars + Mul(30, neb), stars + Mul(60, neb)>>

\* getDiskColor(t)
DiskColorE(t) == VMix(<<S, 100, 0>>, <<S, S, 800>>, t)

\* sampleDisk(p, r)
SampleDiskE(pos, r) ==
    IF Abs(pos[2]) > HEIGHT_E THEN ZeroSample
    ELSE IF r < INNER_E \/ r > OUTER_E THEN ZeroSample
    ELSE LET density ==
                 Mul(Mul(S - Smoothstep(0, 800, Abs(pos[2])),
                         Smoothstep(INNER_E, INNER_E + S, r)),
                     S - Smoothstep(OUTER_E - 2 * S, OUTER_E, r))
         IN IF density < 10 THEN ZeroSample
            ELSE LET n == Smoothstep(300, 700, nz)
                     temp == S - Smoothstep(INNER_E, OUTER_E, r) + Mul(n, 300)
                     rgb == DiskColorE(Clamp(Mul(temp, 1200), 0, S))
                 IN [rgb |-> VScale(rgb, 2500),
                     a |-> Mul(Mul(density, n), 600)]

\* float rSafe = max(r, 0.5);
RSafeE(r) == Max(r, 500)

\* vec3 acc = -1.5 * p / (rSafe * rSafe * rSafe);
GravityE(pos, rSafe) ==
    LET q(x) == Div(Div(Div(x * S, rSafe) * S, rSafe) * S, rSafe)
    IN <<-Div(3 * q(pos[1]), 2), -Div(3 * q(pos[2]), 2), -Div(3 * q(pos[3]), 2)>>

\* float dt = max(STEP_SIZE, r * 0.08); if (abs(p.y) < 1.0 && r < 15.0) dt = 0.06;
StepSizeE(pos, r) ==
    IF Abs(pos[2]) < S /\ r < 15 * S THEN 60 ELSE Max(STEP_SIZE_E, Mul(r, 80))

\* The radius the march loop hands to sampleDisk with the advanced position.
SampleRadiusE(r, p1) == r

\* main(): the ray direction before normalize(), from the camera basis
RawDirE ==
    LET uv == ScreenUv
        ux == Div(uv[1] * uResolution[1], uResolution[2])
        camFwd == Normalize(uCameraDir)
        camUp == Normalize(uCameraUp)
        camRight == Cross(camFwd, camUp)
    IN VAdd(camFwd, VAdd(VScale(camRight, ux), VScale(camUp, uv[2])))

\* main(): set-up before the loop
SetupE ==
    [BlankRay EXCEPT !.pc = "loop", !.p = uCameraPos, !.v = Normalize(RawDirE)]

\* main(): one iteration of the ray-marching loop
IterE(c) ==
    LET r == Length(c.p)
    IN IF r < HORIZON_E
       THEN [c EXCEPT !.trans = 0, !.pc = "post", !.exit = "absorbed",
                      !.haltCol = c.col, !.sampled = FALSE, !.sampAlpha = 0,
                      !.divR = -1]
       ELSE IF r > MAX_DIST_E
       THEN [c EXCEPT !.col = VAdd(c.col, VScale(BackgroundE, c.trans)),
                      !.pc = "post", !.exit = "escaped", !.haltCol = c.col,
                      !.sampled = FALSE, !.sampAlpha = 0,
                      !.divR = -1]
       ELSE LET rSafe == RSafeE(r)
                acc == GravityE(c.p, rSafe)
                dtE == StepSizeE(c.p, r)
                v1 == Normalize(VAdd(c.v, VScale(acc, dtE)))
                p1 == VAdd(c.p, VScale(v1, dtE))
                inDisk == Abs(p1[2]) < 800 /\ r < 14 * S /\ r > 2500
                samp == IF inDisk THEN SampleDiskE(p1, SampleRadiusE(r, p1))
                                  ELSE ZeroSample
                hit == inDisk /\ samp.a > 10
                sd == Mul(samp.a, dtE)
                col1 == IF hit THEN ColAfter(c.col, c.trans, samp.rgb, sd)
                               ELSE c.col
                tr1 == IF hit THEN TransAfter(c.trans, sd) ELSE c.trans
                early == hit /\ tr1 < 50
                last == c.i + 1 >= MAX_STEPS_E
            IN [c EXCEPT !.p = p1, !.v = v1, !.dt = dtE, !.col = col1,
                         !.trans = tr1,
                         !.i = IF early THEN c.i ELSE c.i + 1,
                         !.stepDens = IF hit THEN sd ELSE c.stepDens,
                         !.sampled = inDisk, !.sampAlpha = samp.a,
                         !.divR = rSafe,
                         !.pc = IF early \/ last THEN "post" ELSE "loop",
                         !.exit = IF early THEN "opaque"
                                  ELSE IF last THEN "budget" ELSE "none",
                         !.haltCol = IF early \/ last THEN col1 ELSE c.haltCol]

\* main(): after the loop
PostE(c) ==
    [c EXCEPT !.pc = "done", !.preTone = c.col, !.fragColor = ToneMap(c.col)]

----------------------------------------------------------------------------
\* Revision 2: RK4 integration with frame dragging, textured disk
\* (blackhole.ts, second shader; the revision the frame driver feeds)

DISC_INNER_K == 2600
DISC_OUTER_K == 19000
MAX_STEPS_K == 140
MAX_DIST_K == 60000
RH_K == 1350
USPIN == 950

\* x*x for a distance x (far distances at a quarter of the resolution)
Sq(x) == IF Abs(x) <= 46000 THEN Mul(x, x) ELSE 16 * Mul(Div(x, 4), Div(x, 4))

\* getStarfield(dir): hash() is hs
StarfieldK ==
    LET stars == IF hs >= 9990 THEN (hs - 9990) * 200 ELSE 0
    IN <<stars, stars, stars>>

\* C9, fault: the sampler returns the image although none is bound
TexelAlwaysBound == <<nz, nz, nz>>

\* texture2D(uDiskTexture, uv).rgb: a grey texture of brightness nz; with no
\* texture bound the sampler reads the renderer's empty texture, which is black.
Texel == IF uDiskTexture = "null" THEN Zero3 ELSE <<nz, nz, nz>>

\* getKerrAccel: float r2 = dot(p, p); float r = sqrt(r2); the radius its
\* inverse powers divide by
KerrRadius(pos) == Length(pos)

\* getKerrAccel(p, v, h2)
KerrAccel(pos, vel, hh) ==
    LET r == KerrRadius(pos)
        inv(x) == Div(x * S, r)
        pull == inv(inv(inv(inv(hh))))
        dragStrength == inv(inv(inv(inv(2 * USPIN))))
        dragDir == <<pos[3], 0, -pos[1]>>
        base == <<-3 * Mul(pull, inv(pos[1])), -3 * Mul(pull, inv(pos[2])),
                  -3 * Mul(pull, inv(pos[3]))>>
    IN VAdd(base, VScale(dragDir, dragStrength))

\* sampleDiskTexture(p, r)
SampleDiskK(pos, r) ==
    IF r < DISC_INNER_K \/ r > DISC_OUTER_K THEN ZeroSample
    ELSE LET t == Texel
             texCol == <<4 * Pow22(t[1]), 4 * Pow22(t[2]), 4 * Pow22(t[3])>>
             brightness == Dot(texCol, <<330, 330, 330>>)
             thickness == Mul(50, S + Div(r, 10))
             alpha == Mul(Smoothstep(100, 800, brightness),
                          S - Smoothstep(0, thickness, Abs(pos[2])))
         IN [rgb |-> texCol, a |-> alpha]

\* dt = max(0.02, r * 0.05); if(abs(p.y) < 0.5 && r < DISC_OUTER + 1.0) dt = min(dt, 0.05);
StepSizeK(pos, r) ==
    LET dt0 == Max(20, Mul(r, 50))
    IN IF Abs(pos[2]) < 500 /\ r < DISC_OUTER_K + S THEN Min(dt0, 50) ELSE dt0

\* float stepDens = data.a * dt * 5.0;
StepDensK(a, dtK) == 5 * Mul(a, dtK)

\* Relativistic beaming and redshift tint of one texture sample
EmissionK(pos, vel, rgb) ==
    LET tanVec == Normalize(<<pos[3], 0, -pos[1]>>)
        alignment == Dot(tanVec, vel)
        b == S - Mul(alignment, 700)
        beaming == Mul(Mul(b, b), Mul(b, b))
        shift == 500 - Mul(500, alignment)
        tint == VMix(<<S, 400, 100>>, <<900, 950, S>>, shift)
    IN VScale(VMul(VScale(rgb, beaming), tint), 2500)

\* main(): set-up before the loop
SetupK ==
    LET base == SetupE
        hVec == Cross(base.p, base.v)
    IN [base EXCEPT !.h2 = Dot(hVec, hVec), !.dt = 500]

\* One stage of the RK4 integration: from the previous stage's velocity and
\* acceleration, the next intermediate velocity and the acceleration there
\*   pn = p + vPrev * h;  vn = v + kPrev * h;  kn = getKerrAccel(pn, vn, h2);
RK4Stage(pos, vel, hh, prev, h) ==
    LET vn == VAdd(vel, VScale(prev.k, h))
    IN [v |-> vn, k |-> KerrAccel(VAdd(pos, VScale(prev.v, h)), vn, hh),
        r |-> KerrRadius(VAdd(pos, VScale(prev.v, h)))]

\*   p += (v + 2.0*v2 + 2.0*v3 + v4) * (dt / 6.0);
\*   v += (k1v + 2.0*k2v + 2.0*k3v + k4v) * (dt / 6.0);  v = normalize(v);
RK4Sum(pos, vel, dtK, s1, s2, s3, s4) ==
    LET vsum == VAdd(VAdd(s1.v, s4.v), VAdd(VAdd(s2.v, s2.v), VAdd(s3.v, s3.v)))
        ksum == VAdd(VAdd(s1.k, s4.k), VAdd(VAdd(s2.k, s2.k), VAdd(s3.k, s3.k)))
    IN [p |-> VAdd(pos, VDiv(VScale(vsum, dtK), 6)),
        v |-> Normalize(VAdd(vel, VDiv(VScale(ksum, dtK), 6))),
        rmin |-> Min(Min(s1.r, s2.r), Min(s3.r, s4.r))]

\* RK4 Integration with Kerr Accel
RK4Step(pos, vel, hh, dtK) ==
    LET half == Div(dtK, 2)
        s1 == [v |-> vel, k |-> KerrAccel(pos, vel, hh), r |-> KerrRadius(pos)]
        s2 == RK4Stage(pos, vel, hh, s1, half)
        s3 == RK4Stage(pos, vel, hh, s2, half)
        s4 == RK4Stage(pos, vel, hh, s3, dtK)
    IN RK4Sum(pos, vel, dtK, s1, s2, s3, s4)

\* bloom += 0.05 / (dRing * dRing + 0.1) with dRing = abs(r - 2.8)
BloomStepK(b, r) == b + Div(50 * S, Sq(Abs(r - 2800)) + 100)

\* main(): the texture-sampling half of one iteration, at the advanced ray st
DiskStepK(c, dtK, st) ==
    LET mr == Length(st.p)
        inDisk == mr < DISC_OUTER_K /\ mr > DISC_INNER_K /\ Abs(st.p[2]) < 100
        data == IF inDisk THEN SampleDiskK(st.p, mr) ELSE ZeroSample
        hit == inDisk /\ data.a > 10
        sd == StepDensK(data.a, dtK)
        col1 == IF hit
                THEN ColAfter(c.col, c.trans, EmissionK(st.p, st.v, data.rgb), sd)
                ELSE c.col
        tr1 == IF hit THEN TransAfter(c.trans, sd) ELSE c.trans
        early == hit /\ tr1 < 10
        last == c.i + 1 >= MAX_STEPS_K
    IN [c EXCEPT !.p = st.p, !.v = st.v, !.dt = dtK,
                 !.col = col1, !.trans = tr1,
                 !.i = IF early THEN c.i ELSE c.i + 1,
                 !.stepDens = IF hit THEN sd ELSE c.stepDens,
                 !.sampled = inDisk, !.sampAlpha = data.a,
                 !.divR = st.rmin,
                 !.pc = IF early \/ last THEN "post" ELSE "loop",
                 !.exit = IF early THEN "opaque"
                          ELSE IF last THEN "budget" ELSE "none",
                 !.haltCol = IF early \/ last THEN col1 ELSE c.haltCol]

\* C11, fault: the horizon test is dropped
InsideHorizonKNever(r) == FALSE

\* if (r < rh) break;
InsideHorizonK(r) == r < RH_K

\* main(): one iteration of the integration loop
IterK(c) ==
    LET r == Length(c.p)
    IN IF InsideHorizonK(r)
       THEN [c EXCEPT !.pc = "post", !.exit = "absorbed", !.haltCol = c.col,
                      !.sampled = FALSE, !.sampAlpha = 0,
                      !.divR = -1]
       ELSE IF r > MAX_DIST_K
       THEN [c EXCEPT !.col = VAdd(c.col, VScale(StarfieldK, c.trans)),
                      !.pc = "post", !.exit = "escaped", !.haltCol = c.col,
                      !.sampled = FALSE, !.sampAlpha = 0,
                      !.divR = -1]
       ELSE DiskStepK([c EXCEPT !.bloom = BloomStepK(c.bloom, r)],
                      StepSizeK(c.p, r),
                      RK4Step(c.p, c.v, c.h2, StepSizeK(c.p, r)))

\* col += vec3(0.8, 0.6, 0.3) * bloom * 0.002;
BloomK(b) == VScale(VScale(<<800, 600, 300>>, b), 2)

\* C5, fault: the bloom composite after the loop is left out
PostKNoBloom(c) == PostE(c)

\* main(): after the loop
PostK(c) ==
    LET out == VAdd(c.col, BloomK(c.bloom))
    IN [c EXCEPT !.pc = "done", !.col = out, !.preTone = out,
                 !.fragColor = ToneMap(out)]

----------------------------------------------------------------------------
\* Revision 3: straight rays bent by a lensing heuristic, uMass uniform
\* (unnamed/part_000)

MAX_STEPS_M == 128
MAX_DIST_M == 50000
SURF_DIST == 10
UMASS == 1000

\* getRayDirection(uv, camPos, lookAt, fov) with lookAt = 0, fov = 1.0
RawDirM(uv, camPos) ==
    LET forward == Normalize(VNeg(camPos))
        right == Normalize(Cross(<<0, S, 0>>, forward))
        up == Cross(forward, right)
    IN VAdd(forward, VAdd(VScale(right, uv[1]), VScale(up, uv[2])))

RayDirectionM(uv, camPos) == Normalize(RawDirM(uv, camPos))

\* sampleDisk(p, distToCenter): fbm() is nz
SampleDiskM(pos, distToCenter) ==
    LET thickness == 100 + Mul(distToCenter, 50)
        innerR == 3 * UMASS
        outerR == 12 * UMASS
        r == Length(<<pos[1], 0, pos[3]>>)
    IN IF Abs(pos[2]) > thickness THEN ZeroSample
       ELSE IF r < innerR \/ r > outerR THEN ZeroSample
       ELSE LET dens == nz
                temp == S - Smoothstep(innerR, outerR, r)
                c0 == VMix(<<800, 300, 100>>, <<S, 900, 500>>, Mul(temp, dens))
                factor == Div(-pos[1] * S, r + 100)
                c1 == VScale(c0, S + Mul(factor, 800))
                c2 == IF factor > 0
                      THEN VAdd(c1, VScale(<<0, 100, 200>>, factor))
                      ELSE c1
                c3 == IF factor < 0 THEN VMul(c2, <<S, 800, 500>>) ELSE c2
            IN [rgb |-> c3, a |-> 2 * Mul(dens, temp)]

\* float stars = pow(hash(rd.xy * 100.0), 20.0);
StarsM ==
    LET x == Div(hs, 10)
        x2 == Mul(x, x)
        x4 == Mul(x2, x2)
        x5 == Mul(x4, x)
        x10 == Mul(x5, x5)
        x20 == Mul(x10, x10)
    IN <<x20, x20, x20>>

\* main(): set-up before the loop
SetupM ==
    [BlankRay EXCEPT !.pc = "loop", !.p = uCameraPos,
                     !.v = RayDirectionM(ScreenUv, uCameraPos)]

\* float bend = (rs * 0.5) / (r * r): the radius the bend divides by
BendRadiusM(r) == r

\* main(): one iteration of the march loop
IterM(c) ==
    LET pos == VAdd(uCameraPos, VScale(c.v, c.d))
        r == Length(pos)
        rs == 2 * UMASS
    IN IF r < rs + SURF_DIST
       THEN [c EXCEPT !.p = pos, !.col = Zero3, !.pc = "post",
                      !.exit = "absorbed", !.haltCol = Zero3,
                      !.sampled = FALSE, !.sampAlpha = 0,
                      !.divR = -1]
       ELSE IF c.d > MAX_DIST_M
       THEN [c EXCEPT !.p = pos, !.pc = "post", !.exit = "escaped",
                      !.haltCol = c.col, !.sampled = FALSE, !.sampAlpha = 0,
                      !.divR = -1]
       ELSE LET rb == BendRadiusM(r)
                bend == Div(Div(Div(rs, 2) * S, rb) * S, rb)
                toCenter == Normalize(VNeg(pos))
                rd1 == IF r > rs
                       THEN Normalize(VAdd(c.v, VScale(VScale(toCenter, bend), 200)))
                       ELSE c.v
                near == Abs(pos[2]) < 2 * S
                samp == IF near THEN SampleDiskM(pos, r) ELSE ZeroSample
                hit == near /\ samp.a > 10
                stepAlpha == Mul(samp.a, 100)
                col1 == IF hit
                        THEN VAdd(c.col, VScale(VScale(samp.rgb, stepAlpha),
                                                S - c.accumDens))
                        ELSE c.col
                dens1 == IF hit THEN c.accumDens + stepAlpha ELSE c.accumDens
                early == hit /\ dens1 > 980
                step == IF dens1 > 10 THEN 50 ELSE Max(50, Mul(r, 100))
                last == c.i + 1 >= MAX_STEPS_M
            IN [c EXCEPT !.p = pos, !.v = rd1, !.col = col1,
                         !.accumDens = dens1,
                         !.d = IF early THEN c.d ELSE c.d + step,
                         !.dt = IF early THEN c.dt ELSE step,
                         !.i = IF early THEN c.i ELSE c.i + 1,
                         !.stepDens = IF hit THEN stepAlpha ELSE c.stepDens,
                         !.sampled = near, !.sampAlpha = samp.a,
                         !.divR = IF r > rs THEN rb ELSE -1,
                         !.pc = IF early \/ last THEN "post" ELSE "loop",
                         !.exit = IF early THEN "opaque"
                                  ELSE IF last THEN "budget" ELSE "none",
                         !.haltCol = IF early \/ last THEN col1 ELSE c.haltCol]

\* C7, fault: the background behind the disk is left out after the loop
PostMNoStars(c) ==
    [c EXCEPT !.pc = "done", !.preTone = c.col, !.fragColor = c.col]

\* main(): after the loop (no tone mapping in this revision)
PostM(c) ==
    LET out == IF c.accumDens < S
               THEN VAdd(c.col, VScale(StarsM, S - c.accumDens))
               ELSE c.col
    IN [c EXCEPT !.pc = "done", !.col = out, !.preTone = out, !.fragColor = out]

----------------------------------------------------------------------------
\* Inputs of the model

\* Camera poses (cam.position, cam.getWorldDirection(), cam.up)
Cam(pos, dir, up) == [pos |-> pos, dir |-> dir, up |-> up]
CamX10 == Cam(<<10 * S, 0, 0>>, <<-S, 0, 0>>, <<0, S, 0>>)
CamY10 == Cam(<<0, 10 * S, 0>>, <<0, -S, 0>>, <<0, 0, -S>>)
CamZ10 == Cam(<<0, 0, 10 * S>>, <<0, 0, -S>>, <<0, S, 0>>)
CamSteep == Cam(<<12 * S, 5 * S, 0>>, <<0, -S, 0>>, <<0, 0, -S>>)
CamGraze == Cam(<<13560, S, 0>>, <<600, -800, 0>>, <<800, 600, 0>>)
CamOut == Cam(<<0, 2800, 0>>, <<0, S, 0>>, <<0, 0, -S>>)
Cameras == {CamX10, CamY10, CamZ10, CamSteep, CamGraze, CamOut}
DriverCameras == {CamX10, CamSteep}

\* renderer.domElement.width, height
Canvas == <<4, 3>>

Variants == {"euler", "rk4", "umass"}
Pixels == {<<500, 500>>, <<S, S>>}
NoiseLevels == {0, 450, 950}
HashLevels == {0, 9995}
DriverPixels == {<<500, 500>>}
DriverNoise == {0, 950}
DriverHash == {0}
Deltas == {0, 16}
MaxFrames == 3
NoCamera == Cam(Zero3, Zero3, Zero3)

\* Every normalize() whose result the march reads has a non-zero argument.
WellFormed ==
    IF variant = "umass"
    THEN /\ Length(uCameraPos) > 0
         /\ Length(Cross(<<0, S, 0>>, Normalize(VNeg(uCameraPos)))) > 0
         /\ Length(RawDirM(ScreenUv, uCameraPos)) > 0
    ELSE \/ Length(uCameraPos) < RH_K
         \/ /\ Length(uCameraDir) > 0
            /\ Length(uCameraUp) > 0
            /\ Length(RawDirE) > 0

----------------------------------------------------------------------------
\* The fragment shader, one step at a time

Setup ==
    /\ pc = "idle"
    /\ WellFormed
    /\ SetRay(CASE variant = "euler" -> SetupE
                [] variant = "rk4" -> SetupK
                [] variant = "umass" -> SetupM)
    /\ UNCHANGED <<driverVars, pixelVars>>

MarchE ==
    /\ pc = "loop" /\ variant = "euler"
    /\ SetRay(IterE(Cur))
    /\ UNCHANGED <<driverVars, pixelVars>>

MarchK ==
    /\ pc = "loop" /\ variant = "rk4"
    /\ SetRay(IterK(Cur))
    /\ UNCHANGED <<driverVars, pixelVars>>

MarchM ==
    /\ pc = "loop" /\ variant = "umass"
    /\ SetRay(IterM(Cur))
    /\ UNCHANGED <<driverVars, pixelVars>>

FinishE ==
    /\ pc = "post" /\ variant = "euler"
    /\ SetRay(PostE(Cur))
    /\ UNCHANGED <<driverVars, pixelVars>>

FinishK ==
    /\ pc = "post" /\ variant = "rk4"
    /\ SetRay(PostK(Cur))
    /\ UNCHANGED <<driverVars, pixelVars>>

FinishM ==
    /\ pc = "post" /\ variant = "umass"
    /\ SetRay(PostM(Cur))
    /\ UNCHANGED <<driverVars, pixelVars>>

\* One pixel of one frame: the uniforms are whatever the driver has set.
Init ==
    /\ time = 0 /\ uTime = 0 /\ frames = 0 /\ deltaSum = 0
    /\ variant \in Variants
    /\ texture = "tex"
    /\ uDiskTexture \in (IF variant = "rk4" THEN {"null", "tex"} ELSE {"tex"})
    /\ \E cam \in Cameras :
          /\ uCameraPos = cam.pos
          /\ uCameraDir = cam.dir
          /\ uCameraUp = cam.up
    /\ uResolution = Canvas
    /\ vUv \in Pixels
    /\ nz \in NoiseLevels
    /\ hs \in HashLevels
    /\ RayIs([BlankRay EXCEPT !.pc = "idle"])
    /\ WellFormed

Next == Setup \/ MarchE \/ MarchK \/ MarchM \/ FinishE \/ FinishK \/ FinishM

Spec == Init /\ [][Next]_vars

----------------------------------------------------------------------------
\* Properties of the ray march (specification Spec)

\* The fraction of background light still reaching the camera: transmittance,
\* or 1.0 - accumDens in the revision that accumulates density
Transmittance == IF variant = "umass" THEN S - accumDens ELSE trans

\* The background sample of the revision at work
Background ==
    CASE variant = "euler" -> BackgroundE
      [] variant = "rk4" -> StarfieldK
      [] variant = "umass" -> StarsM

\* The loop bound of the revision at work
StepBudget ==
    CASE variant = "euler" -> MAX_STEPS_E
      [] variant = "rk4" -> MAX_STEPS_K
      [] variant = "umass" -> MAX_STEPS_M

\* What the RK4 revision adds after its loop: col += vec3(0.8,0.6,0.3)*bloom*0.002
BloomTerm == IF variant = "rk4" THEN BloomK(bloom) ELSE Zero3

\* C1: a ray whose radius falls below the horizon threshold halts there with
\* transmittance zero (in the revisions that keep a transmittance), and the
\* colour handed to the output is the colour it had accumulated at that step:
\* nothing is added afterwards, in or after the loop.
C1_AbsorbedAddsNothing ==
    (pc = "done" /\ exit = "absorbed") =>
        /\ variant # "umass" => trans = 0
        /\ preTone = haltCol

\* The camera is at distance 10 on a coordinate axis, looks at the origin, and
\* the fragment is the centre pixel
Scenario ==
    /\ Cam(uCameraPos, uCameraDir, uCameraUp) \in {CamX10, CamY10, CamZ10}
    /\ vUv = <<500, 500>>

\* C2: in the scenario the centre ray is absorbed before the step budget is
\* used up, and its pixel is black.
C2_CentreRayAbsorbed ==
    (Scenario /\ pc = "done") =>
        (exit = "absorbed" /\ i < StepBudget /\ fragColor = Zero3)

\* C3: no iteration of the march loop increases the transmittance of its ray.
C3_TransmittanceNonIncreasing ==
    [][pc = "loop" => Transmittance' <= Transmittance]_vars

\* A composite has attenuated a ray that is still marching
C3_Witness ==
    /\ pc = "loop" /\ variant \in {"euler", "rk4"}
    /\ stepDens > 0 /\ trans > 0 /\ trans < S

\* C4: transmittance is never negative, and every density used as a blend
\* weight lies in [0,1].
C4_WeightsInUnitRange ==
    /\ Transmittance >= 0
    /\ stepDens >= 0 /\ stepDens <= S

\* C5: a ray that leaves the maximum distance unabsorbed halts with the colour
\* accumulated so far plus transmittance x background, and nothing else.
C5_EscapedColour ==
    (pc = "done" /\ exit = "escaped") =>
        preTone = VAdd(haltCol, VScale(Background, Transmittance))

\* C5, amended: ... plus, in the RK4 revision only, the bloom composite that
\* follows the loop.
C5_EscapedColourWithBloom ==
    (pc = "done" /\ exit = "escaped") =>
        preTone = VAdd(VAdd(haltCol, VScale(Background, Transmittance)), BloomTerm)

\* An RK4 ray has escaped with a bloom composite that is not zero
C5_Witness ==
    /\ pc = "done" /\ exit = "escaped" /\ variant = "rk4"
    /\ BloomK(bloom) # Zero3

\* Bounds of the disk of the revision at work (Euler, RK4)
DiskHeight == IF variant = "euler" THEN HEIGHT_E ELSE 100
DiskInner == IF variant = "euler" THEN INNER_E ELSE DISC_INNER_K
DiskOuter == IF variant = "euler" THEN OUTER_E ELSE DISC_OUTER_K

\* C6: a disk sample taken by the loop has alpha zero when the sampled position
\* is beyond the thickness bound or its radius is outside [inner, outer].
C6_OutsideDiskZeroAlpha ==
    (variant \in {"euler", "rk4"} /\ sampled) =>
        ((\/ Abs(p[2]) > DiskHeight
          \/ Length(p) < DiskInner
          \/ Length(p) > DiskOuter) => sampAlpha = 0)

\* C7: a ray whose loop ran out of steps halts with exactly the colour
\* accumulated so far.
C7_BudgetColour ==
    (pc = "done" /\ exit = "budget") => preTone = haltCol

\* C7, amended: ... to which the RK4 revision adds its bloom composite and the
\* uMass revision the background weighted by 1.0 - accumDens; the Euler revision
\* adds nothing.
C7_BudgetColourAmended ==
    (pc = "done" /\ exit = "budget") =>
        preTone = CASE variant = "euler" -> haltCol
                    [] variant = "rk4" -> VAdd(haltCol, BloomK(bloom))
                    [] variant = "umass" ->
                         VAdd(haltCol, VScale(StarsM, S - accumDens))

\* A uMass ray has run out of steps behind a disk that lets a star through
C7_Witness ==
    /\ pc = "done" /\ exit = "budget" /\ variant = "umass"
    /\ haltCol # Zero3 /\ VScale(StarsM, S - accumDens) # Zero3

\* C10: the colour emitted for a pixel is the tone-mapped accumulated colour,
\* each channel in [0,1), and zero for a zero accumulated colour.
C10_ToneMapped ==
    pc = "done" =>
        /\ fragColor = ToneMap(preTone)
        /\ \A k \in 1..3 : fragColor[k] >= 0 /\ fragColor[k] < S
        /\ (preTone = Zero3 => fragColor = Zero3)

\* The least value the divisor radius of the revision at work can take: what
\* the code makes of a radius of zero
DivisorFloor ==
    CASE variant = "euler" -> RSafeE(0)
      [] variant = "rk4" -> KerrRadius(Zero3)
      [] variant = "umass" -> BendRadiusM(0)

----------------------------------------------------------------------------
\* The frame driver (BlackholeScene.svelte) feeding the RK4 revision, whose
\* uniforms are the ones it declares

\* C8, fault: the elapsed time restarts from the frame's delta
FrameTimeReset(t, delta) == delta

\* time += delta;
FrameTime(t, delta) == t + delta

\* if ($texture && !uniforms.uDiskTexture.value) uniforms.uDiskTexture.value = $texture;
InstallTexture(loaded, cur) ==
    IF loaded # "null" /\ cur = "null" THEN loaded ELSE cur

\* useTask((delta) => { ... }): one frame callback; cam is camera.current
\* (NoCamera when it is not set)
Frame ==
    /\ frames < MaxFrames
    /\ pc \in {"off", "done"}
    /\ \E delta \in Deltas, cam \in DriverCameras \cup {NoCamera} :
          /\ time' = FrameTime(time, delta)
          /\ uTime' = time'
          /\ uDiskTexture' = InstallTexture(texture, uDiskTexture)
          /\ IF cam # NoCamera
             THEN /\ uCameraPos' = cam.pos
                  /\ uCameraDir' = cam.dir
                  /\ uCameraUp' = cam.up
                  /\ uResolution' = Canvas
             ELSE UNCHANGED <<uCameraPos, uCameraDir, uCameraUp, uResolution>>
          /\ frames' = frames + 1
          /\ deltaSum' = deltaSum + delta
    /\ SetRay(BlankRay)
    /\ UNCHANGED <<texture, pixelVars>>

\* useLoader(TextureLoader).load(...) resolves: $texture becomes the image
TextureLoaded ==
    /\ texture = "null"
    /\ texture' = "tex"
    /\ UNCHANGED <<time, uTime, uDiskTexture, uCameraPos, uCameraDir, uCameraUp,
                   uResolution, frames, deltaSum, pixelVars, rayVars>>

\* The renderer draws the mesh with the current uniforms: one fragment starts
Draw ==
    /\ frames >= 1
    /\ pc \in {"off", "done"}
    /\ variant' = variant
    /\ vUv' \in DriverPixels
    /\ nz' \in DriverNoise
    /\ hs' \in DriverHash
    /\ SetRay([BlankRay EXCEPT !.pc = "idle"])
    /\ UNCHANGED driverVars

\* State after construction of the component
DriverInit ==
    /\ time = 0 /\ uTime = 0 /\ frames = 0 /\ deltaSum = 0
    /\ texture = "null" /\ uDiskTexture = "null"
    /\ uCameraPos = Zero3 /\ uCameraDir = Zero3 /\ uCameraUp = Zero3
    /\ uResolution = <<1, 1>>
    /\ variant = "rk4" /\ vUv = <<500, 500>> /\ nz = 0 /\ hs = 0
    /\ RayIs(BlankRay)

DriverNext == Frame \/ TextureLoaded \/ Draw \/ Setup \/ MarchK \/ FinishK

DriverSpec == DriverInit /\ [][DriverNext]_vars

----------------------------------------------------------------------------
\* Properties of the frame driver (specification DriverSpec)

\* C8: the elapsed time given to the shader is the sum of the deltas of all
\* frames so far, on every frame with or without a camera, and no frame
\* decreases it.
C8_TimeIsSumOfDeltas ==
    /\ [](uTime = deltaSum /\ time = deltaSum)
    /\ [][uTime' >= uTime]_vars

\* Two frames with a positive delta have passed and no camera was ever present
C8_Witness == frames >= 2 /\ uTime = 32 /\ uCameraPos = Zero3

====
